---- MODULE Spec2Model ----
(***************************************************************************)
(* trello2md (src/index.js): a Trello board export is reshaped into a      *)
(* mapping from list id to list (convertJsonToInternalObject) and the      *)
(* mapping is rendered to markdown (convertTrelloObjectToMarkdown).        *)
(*                                                                         *)
(* JavaScript values are modelled as follows.                              *)
(*   - An optional field of an export record (desc, labels, state) is a    *)
(*     tagged value [t, v]; t = "undefined" is an absent field.            *)
(*   - The mapping is the global function object Object itself (line 20:   *)
(*     var intObject = Object): a property table that exists before the    *)
(*     first call, already holds Object's own properties, and lives as     *)
(*     long as the process.  An entry is [t |-> "undefined"], a native     *)
(*     function, a primitive string, or a list object.                     *)
(*   - list.CARDS, card.ACTIONS_ and card.CHECKLISTS are attached to the    *)
(*     export's own records; they are read only through the mapping, so    *)
(*     the model keeps them inside the mapping's entries.                  *)
(*   - mdString is the sequence of the text's lines: every append of the   *)
(*     renderer ends in "\n", so each append adds whole lines.             *)
(***************************************************************************)
EXTENDS Integers, Sequences, FiniteSets, TLC

VARIABLES
    pc,            \* position of the main script, or "calls" (functions called directly)
    args,          \* program.*: the parsed command line
    file,          \* the source file on disk: [status, json]
    logLevel,      \* the logger's level
    logged,        \* the logger.error / logger.warn calls made so far
    exitCode,      \* process.exit's code, or -1 while running
    trelloJson,    \* global trelloJson (line 6)
    trelloObject,  \* global trelloObject (line 7): "null" or a reference to Object
    Object,        \* the property table of the global function object Object
    mdString,      \* the text returned by the latest render
    writes,        \* fs.writeFile calls: [name, data, status]
    pdfJobs,       \* markdownpdf jobs: [name, data, status]
    lastOp,        \* the latest direct call
    sinceReshape,  \* texts rendered since the latest reshape (the last two)
    transforms     \* texts of the successive convertJson calls on one board (the last two)

vars == <<pc, args, file, logLevel, logged, exitCode, trelloJson, trelloObject,
          Object, mdString, writes, pdfJobs, lastOp, sinceReshape, transforms>>

(***************************************************************************)
(* Bounds of the explored exports.                                         *)
(***************************************************************************)
MaxLists == 2
MaxCards == 2
MaxActions == 3
MaxChecklists == 2
MaxItems == 2

(***************************************************************************)
(* JavaScript values.                                                      *)
(***************************************************************************)
Null == [js |-> "null"]
Undefined == [t |-> "undefined", v |-> ""]
JsString(s) == [t |-> "string", v |-> s]
JsArray(a) == [t |-> "array", v |-> a]

\* String concatenation's ToString: "" + undefined is "undefined".
ToStr(x) == IF x.t = "undefined" THEN "undefined" ELSE x.v

\* _.forEach over a value: an absent collection is iterated as empty.
Iter(x) == IF x.t = "array" THEN x.v ELSE <<>>

RECURSIVE ReverseSeq(_)
ReverseSeq(s) == IF s = <<>> THEN <<>> ELSE Append(ReverseSeq(Tail(s)), Head(s))

(***************************************************************************)
(* The export's records.  Display names, texts and dates are fixed by the  *)
(* record's position; identifiers, flags and optional fields vary.         *)
(***************************************************************************)
ListIds == {"l1", "l2", "keys", "name"}
ListName == [id \in ListIds |->
               CASE id = "l1" -> "Todo" [] id = "l2" -> "Done"
                 [] id = "keys" -> "Keys" [] OTHER -> "Names"]
CardId == <<"c1", "c2", "c3", "c4", "c5">>
CardName == <<"Card1", "Card2", "Card3", "Card4", "Card5">>
ActionText == <<"t1", "t2", "t3", "t4", "t5">>
\* What new Date(action.date) answers: getFullYear(), getMonth() (0..11), getDate().
ActionDate == << [year |-> 2023, month |-> 2, date |-> 5],
                 [year |-> 2023, month |-> 10, date |-> 17],
                 [year |-> 2024, month |-> 8, date |-> 9],
                 [year |-> 2024, month |-> 9, date |-> 10],
                 [year |-> 2025, month |-> 11, date |-> 31] >>
ChecklistName == <<"Steps", "Later", "Extra", "More">>
ItemName == <<"a", "b", "c", "d">>

MkList(id, closed) == [id |-> id, name |-> ListName[id], closed |-> closed]
MkCard(i, idList, closed, desc, labels) ==
    [id |-> CardId[i], name |-> CardName[i], desc |-> desc, labels |-> labels,
     idList |-> idList, closed |-> closed]
MkAction(i, type, cardId) ==
    [type |-> type, date |-> ActionDate[i],
     data |-> [text |-> ActionText[i], card |-> [id |-> cardId]]]
MkItem(i, state) == [name |-> ItemName[i], state |-> state]
MkChecklist(i, idCard, items) ==
    [name |-> ChecklistName[i], idCard |-> idCard, checkItems |-> items]
MkBoard(lists, cards, actions, checklists) ==
    [name |-> "Demo", lists |-> lists, cards |-> cards, actions |-> actions,
     checklists |-> checklists]

(***************************************************************************)
(* The global function object Object, used as the mapping (line 20).       *)
(***************************************************************************)
EntryUndefined == [t |-> "undefined"]
NativeFunction(n) == [t |-> "function", name |-> n]
PrimString(s) == [t |-> "string", v |-> s]
ListObject(l) == [t |-> "object", v |-> l]

\* Object before the first call: Object.keys is a native function, Object.name
\* is the string "Object"; the other identifiers are not properties of Object.
ObjectAtStart ==
    [p \in ListIds |->
        CASE p = "keys" -> NativeFunction("keys")
          [] p = "name" -> PrimString("Object")
          [] OTHER -> EntryUndefined]

\* Object.name is not writable.
ReadOnly(p) == p = "name"

\* obj[p] = val outside strict mode: a write to a read-only property is ignored.
Put(obj, p, val) == IF ReadOnly(p) THEN obj ELSE [obj EXCEPT ![p] = val]

\* !x, for the values an entry can be.
Truthy(e) == e.t \in {"function", "object"} \/ (e.t = "string" /\ e.v # "")

(***************************************************************************)
(* convertJsonToInternalObject (lines 17-60).                              *)
(***************************************************************************)
\* The predicate of line 44-50.
IsCommentOf(action, card) ==
    action.type = "commentCard" /\ action.data.card.id = card.id

\* Lines 40-56: the card with its comment actions and its checklists attached
\* (the field ACTIONS_ is card.ACTIONS; ACTIONS is a reserved word here).
AttachToCard(json, card) ==
    [id |-> card.id, name |-> card.name, desc |-> card.desc, labels |-> card.labels,
     idList |-> card.idList, closed |-> card.closed,
     ACTIONS_ |-> SelectSeq(json.actions, LAMBDA a : IsCommentOf(a, card)),
     CHECKLISTS |-> SelectSeq(json.checklists, LAMBDA c : c.idCard = card.id)]

\* Lines 33-36: _.filter(cards, {idList: list.id, closed: false}); _.filter keeps
\* the matching elements in their original order.
CardsOfList(json, list) ==
    SelectSeq(json.cards, LAMBDA c : c.idList = list.id /\ c.closed = FALSE)

\* Lines 30-56 for one list: the list object with CARDS attached.
Enriched(json, list) ==
    LET cards == CardsOfList(json, list)
    IN  [id |-> list.id, name |-> list.name, closed |-> list.closed,
         CARDS |-> [i \in 1..Len(cards) |-> AttachToCard(json, cards[i])]]

\* The loop of lines 22-57 from list i on.  A closed list is skipped (25-28).
\* When the write of line 30 is ignored, intObject[list.id] is still the
\* primitive that was there, the write of CARDS on it (33) is lost, and
\* intObject[list.id].CARDS.length (37) throws a TypeError.
RECURSIVE ReshapeFrom(_, _, _)
ReshapeFrom(json, obj, i) ==
    IF i > Len(json.lists) THEN [Object |-> obj, threw |-> FALSE]
    ELSE LET list == json.lists[i]
             stored == Put(obj, list.id, ListObject(list))
         IN  IF list.closed = TRUE THEN ReshapeFrom(json, obj, i + 1)
             ELSE IF stored[list.id].t # "object"
                  THEN [Object |-> stored, threw |-> TRUE]
                  ELSE ReshapeFrom(json,
                                   [stored EXCEPT ![list.id] = ListObject(Enriched(json, list))],
                                   i + 1)

convertJsonToInternalObject(json, obj) == ReshapeFrom(json, obj, 1)

(***************************************************************************)
(* convertTrelloObjectToMarkdown (lines 73-182).                           *)
(***************************************************************************)
Line(k, text) == [k |-> k, text |-> text, labels |-> <<>>, tag |-> <<>>, box |-> ""]
Blank == Line("blank", "")

\* Lines 125-137: a number below 10 gets a leading "0".
Pad2(n) == IF n < 10 THEN <<0, n>> ELSE <<n \div 10, n % 10>>

\* Line 139: "[" + getFullYear() + "-" + month + "-" + day + "] ".
DateTag(d) == <<d.year, Pad2(d.month + 1), Pad2(d.date)>>

\* Line 139: ACTION_PREFIX + date tag + action.data.text + "\n".
CommentLine(action) ==
    [k |-> "comment", text |-> action.data.text, labels |-> <<>>,
     tag |-> DateTag(action.date), box |-> ""]

\* The marker with the test turned round: "[X] " for "complete" alone.
CheckBox_CompleteOnly(state) == IF state = JsString("complete") THEN "[X] " ELSE "[ ] "

\* Lines 160-164.
CheckBox(state) == IF state = JsString("incomplete") THEN "[ ] " ELSE "[X] "

\* Line 166: CHECKLIST_ITEM_PREFIX + checkBox + item.name + "\n".
ItemLine(item) ==
    [k |-> "item", text |-> item.name, labels |-> <<>>, tag |-> <<>>,
     box |-> CheckBox(item.state)]

\* Lines 155-167 for one checklist; prefNL is "\n" when the card has comments.
ChecklistLines(checklist, prefNL) ==
    (IF prefNL THEN <<Blank>> ELSE <<>>)
    \o <<Line("checklist", checklist.name)>>
    \o [i \in 1..Len(checklist.checkItems) |-> ItemLine(checklist.checkItems[i])]

RECURSIVE Flatten(_)
Flatten(ss) == IF ss = <<>> THEN <<>> ELSE Head(ss) \o Flatten(Tail(ss))

\* Lines 103-111: "\n## " + card.name + " " + labels + "\n".
CardHeading(card) ==
    << Blank,
       [k |-> "card", text |-> card.name,
        labels |-> [i \in 1..Len(Iter(card.labels)) |-> Iter(card.labels)[i].name],
        tag |-> <<>>, box |-> ""] >>

\* Lines 114-116: card.desc !== "".
DescLines(card) ==
    IF card.desc # JsString("") THEN <<Line("desc", ToStr(card.desc)), Blank>> ELSE <<>>

\* The comments left in the export's order.
ReverseInPlace_NoReverse(actions) == actions

\* Line 119: _.reverse(card.ACTIONS) reverses the card's array in place.
ReverseInPlace(actions) == ReverseSeq(actions)

\* Lines 100-176 for one card, its ACTIONS_ already reversed.
CardLines(card) ==
    CardHeading(card)
    \o DescLines(card)
    \o [i \in 1..Len(card.ACTIONS_) |-> CommentLine(card.ACTIONS_[i])]
    \o (IF Len(card.ACTIONS_) > 0 THEN <<Blank>> ELSE <<>>)
    \o Flatten([i \in 1..Len(card.CHECKLISTS) |->
                   ChecklistLines(card.CHECKLISTS[i], Len(card.ACTIONS_) > 0)])
    \o (IF Len(card.ACTIONS_) = 0 /\ Len(card.CHECKLISTS) = 0 THEN <<Blank, Blank>> ELSE <<>>)

\* The card as the renderer leaves it.
CardAfterRender(card) == [card EXCEPT !.ACTIONS_ = ReverseInPlace(@)]

\* currentObject.name and currentObject.CARDS for the values an entry can be:
\* a native function has its own name and no CARDS, a string has neither.
EntryName(e) ==
    CASE e.t = "object" -> e.v.name
      [] e.t = "function" -> e.name
      [] OTHER -> "undefined"
EntryCards(e) == IF e.t = "object" THEN e.v.CARDS ELSE <<>>

\* Lines 94-178 for one list whose entry is truthy.
ListLines(e) ==
    <<Line("list", EntryName(e))>>
    \o Flatten([i \in 1..Len(EntryCards(e)) |-> CardLines(CardAfterRender(EntryCards(e)[i]))])
    \o <<Blank>>

EntryAfterRender(e) ==
    IF e.t = "object"
    THEN [e EXCEPT !.v.CARDS = [i \in 1..Len(@) |-> CardAfterRender(@[i])]]
    ELSE e

\* The loop of lines 87-179 from list i on; line 90 skips a falsy entry.
RECURSIVE RenderFrom(_, _, _, _)
RenderFrom(listArray, obj, i, md) ==
    IF i > Len(listArray) THEN [mdString |-> md, Object |-> obj]
    ELSE LET id == listArray[i].id
         IN  IF ~Truthy(obj[id]) THEN RenderFrom(listArray, obj, i + 1, md)
             ELSE RenderFrom(listArray,
                             [obj EXCEPT ![id] = EntryAfterRender(@)],
                             i + 1,
                             md \o ListLines(obj[id]))

convertTrelloObjectToMarkdown(listArray, obj) == RenderFrom(listArray, obj, 1, <<>>)

(***************************************************************************)
(* The explored exports.  Each family varies one collection of the export  *)
(* over everything its bound allows and fixes the others.                  *)
(***************************************************************************)
SeqsUpTo(S, n) == UNION {[1..k -> S] : k \in 0..n}

Urgent == JsArray(<<[name |-> "urgent"]>>)
NoLabels == JsArray(<<>>)
Complete == JsString("complete")
Incomplete == JsString("incomplete")

\* Lists: every sequence of lists with distinct ids, open or closed.
ListSeqs(n) ==
    { [i \in 1..Len(c) |-> MkList(c[i][1], c[i][2])] :
        c \in { d \in SeqsUpTo(ListIds \X BOOLEAN, n) :
                  \A i, j \in 1..Len(d) : i # j => d[i][1] # d[j][1] } }

ListBoards ==
    { MkBoard(ls,
              << MkCard(1, "l1", FALSE, JsString("do it"), Urgent),
                 MkCard(2, "l2", FALSE, JsString(""), NoLabels),
                 MkCard(3, "keys", FALSE, JsString(""), NoLabels),
                 MkCard(4, "name", FALSE, JsString(""), NoLabels) >>,
              << MkAction(1, "commentCard", "c1"), MkAction(2, "commentCard", "c1"),
                 MkAction(3, "commentCard", "c3") >>,
              << MkChecklist(1, "c2", <<MkItem(1, Complete), MkItem(2, Incomplete)>>) >>)
      : ls \in ListSeqs(MaxLists) }

\* Cards: every placement (owning list open, closed or missing; card open or closed).
CardBoards ==
    { MkBoard(<<MkList("l1", FALSE), MkList("l2", TRUE)>>,
              [i \in 1..Len(c) |-> MkCard(i, c[i][1], c[i][2], JsString(""), NoLabels)],
              << MkAction(1, "commentCard", "c1"), MkAction(2, "commentCard", "c2") >>,
              << MkChecklist(1, "c1", <<MkItem(1, Complete)>>),
                 MkChecklist(2, "c2", <<>>) >>)
      : c \in SeqsUpTo({"l1", "l2", "l9"} \X BOOLEAN, MaxCards) }

\* Cards: every description and label set, present, empty or absent.
ContentBoards ==
    { MkBoard(<<MkList("l1", FALSE)>>,
              [i \in 1..Len(c) |-> MkCard(i, "l1", FALSE, c[i][1], c[i][2])],
              << MkAction(1, "commentCard", "c1") >>,
              << MkChecklist(1, "c2", <<MkItem(1, Incomplete)>>) >>)
      : c \in SeqsUpTo({Undefined, JsString(""), JsString("do it")}
                         \X {Undefined, NoLabels, Urgent}, MaxCards) }

\* Actions: every type and card reference (c3 is a closed card, c9 is no card).
ActionBoards ==
    { MkBoard(<<MkList("l1", FALSE)>>,
              << MkCard(1, "l1", FALSE, JsString(""), NoLabels),
                 MkCard(2, "l1", FALSE, JsString("do it"), NoLabels),
                 MkCard(3, "l1", TRUE, JsString(""), NoLabels) >>,
              [i \in 1..Len(c) |-> MkAction(i, c[i][1], c[i][2])],
              << MkChecklist(1, "c2", <<MkItem(1, Complete)>>) >>)
      : c \in SeqsUpTo({"commentCard", "updateCard"} \X {"c1", "c2", "c3", "c9"},
                       MaxActions) }

\* The items the checklist at position i carries in ChecklistBoards.
ItemsAt(i) ==
    CASE i % 3 = 1 -> <<MkItem(1, Complete), MkItem(2, Incomplete)>>
      [] i % 3 = 2 -> <<>>
      [] OTHER -> <<MkItem(1, Incomplete)>>

\* Checklists: every owning card, on cards with and without comments and
\* description.
ChecklistBoards ==
    { MkBoard(<<MkList("l1", FALSE)>>,
              << MkCard(1, "l1", FALSE, JsString(""), NoLabels),
                 MkCard(2, "l1", FALSE, JsString("do it"), Urgent) >>,
              as,
              [i \in 1..Len(c) |-> MkChecklist(i, c[i], ItemsAt(i))])
      : c \in SeqsUpTo({"c1", "c2", "c9"}, MaxChecklists),
        as \in { <<>>,
                 << MkAction(1, "commentCard", "c1") >>,
                 << MkAction(1, "commentCard", "c1"), MkAction(2, "commentCard", "c2"),
                    MkAction(3, "commentCard", "c1") >> } }

\* Check items: every state, recognised, unrecognised or absent.
ItemStates == {Incomplete, Complete, JsString("bogus"), Undefined}
ItemBoards ==
    { MkBoard(<<MkList("l1", FALSE)>>,
              << MkCard(1, "l1", FALSE, JsString(""), NoLabels) >>,
              <<>>,
              << MkChecklist(1, "c1", [i \in 1..Len(c) |-> MkItem(i, c[i])]) >>)
      : c \in SeqsUpTo(ItemStates, MaxItems) }

Boards ==
    ListBoards \cup CardBoards \cup ContentBoards \cup ActionBoards
    \cup ChecklistBoards \cup ItemBoards

\* The export of the specification's end-to-end scenario.
DemoBoard ==
    MkBoard(<<MkList("l1", FALSE)>>,
            << MkCard(1, "l1", FALSE, JsString("do it"), Urgent) >>,
            << MkAction(1, "commentCard", "c1") >>,
            << MkChecklist(1, "c1", <<MkItem(1, Complete), MkItem(2, Incomplete)>>) >>)

(***************************************************************************)
(* The command line (lines 245-252) and the source file.                   *)
(***************************************************************************)
LogLevels == {"TRACE", "DEBUG", "INFO", "WARN", "ERROR", "FATAL"}

ArgSets ==
    [sourceFile : BOOLEAN, outputFile : BOOLEAN, pdf : BOOLEAN,
     pdfAutoName : BOOLEAN, logLevel : {"INFO", "FATAL", "LOUD"}]

PlainArgs ==
    [sourceFile |-> TRUE, outputFile |-> TRUE, pdf |-> FALSE,
     pdfAutoName |-> FALSE, logLevel |-> "INFO"]

FileStatus == {"ok", "absent", "malformed"}

(***************************************************************************)
(* The main script (lines 307-331): parseArguments, convertJson,           *)
(* writeMdFile, convertToPdf, then the callbacks of the two asynchronous   *)
(* writes.                                                                 *)
(***************************************************************************)
Text(lines) == [js |-> "string", lines |-> lines]

InitWith(a, st, b) ==
    /\ pc = "parseArguments"
    /\ args = a
    /\ file = [status |-> st, json |-> b]
    /\ logLevel = "INFO"
    /\ logged = <<>>
    /\ exitCode = -1
    /\ trelloJson = Null
    /\ trelloObject = "null"
    /\ Object = ObjectAtStart
    /\ mdString = Null
    /\ writes = <<>>
    /\ pdfJobs = <<>>
    /\ lastOp = "none"
    /\ sinceReshape = <<>>
    /\ transforms = <<>>

\* Every export with the plain command line, and every command line and file
\* state with the end-to-end export.
Init ==
    \/ \E b \in Boards : InitWith(PlainArgs, "ok", b)
    \/ \E a \in ArgSets, st \in FileStatus : InitWith(a, st, DemoBoard)

Log(level, msg) == [level |-> level, msg |-> msg]

\* parseArguments (lines 242-273).
parseArguments ==
    /\ pc = "parseArguments"
    /\ LET missing ==
             (IF ~args.sourceFile THEN <<Log("ERROR", "source file missing")>> ELSE <<>>)
             \o (IF ~args.outputFile THEN <<Log("WARN", "output file missing")>> ELSE <<>>)
       IN  IF ~args.sourceFile
           THEN /\ logged' = logged \o missing
                /\ exitCode' = 0
                /\ pc' = "exited"
                /\ UNCHANGED logLevel
           ELSE /\ IF args.logLevel \in LogLevels
                   THEN /\ logLevel' = args.logLevel
                        /\ logged' = logged \o missing
                   ELSE /\ logLevel' = logLevel
                        /\ logged' = logged \o missing \o <<Log("WARN", "invalid log level")>>
                /\ pc' = "convertJson"
                /\ UNCHANGED exitCode
    /\ UNCHANGED <<args, file, trelloJson, trelloObject, Object, mdString, writes,
                   pdfJobs, lastOp, sinceReshape, transforms>>

\* A load that fails only for a file that is not there.
RequireFails_OnlyAbsent(f) == f.status = "absent"

\* Lines 197-204: require(jsonFile) answers the parsed file or throws.
RequireFails(f) == f.status # "ok"

\* convertJson (lines 194-215): load the file, reshape, render.  A failed load
\* is logged and ends the process (203); a TypeError thrown by the reshaper is
\* caught nowhere and ends the process too.
convertJson ==
    /\ pc = "convertJson"
    /\ IF RequireFails(file)
       THEN /\ logged' = logged \o <<Log("ERROR", "Error opening"), Log("ERROR", "e")>>
            /\ exitCode' = 1
            /\ pc' = "exited"
            /\ UNCHANGED <<trelloJson, trelloObject, Object, mdString>>
       ELSE LET shaped == convertJsonToInternalObject(file.json, Object)
                rendered == convertTrelloObjectToMarkdown(file.json.lists, shaped.Object)
            IN  /\ trelloJson' = file.json
                /\ IF shaped.threw
                   THEN /\ Object' = shaped.Object
                        /\ exitCode' = 1
                        /\ pc' = "crashed"
                        /\ UNCHANGED <<trelloObject, mdString>>
                   ELSE /\ trelloObject' = "Object"
                        /\ Object' = rendered.Object
                        /\ mdString' = Text(rendered.mdString)
                        /\ pc' = "writeMdFile"
                        /\ UNCHANGED exitCode
                /\ UNCHANGED logged
    /\ UNCHANGED <<args, file, logLevel, writes, pdfJobs, lastOp, sinceReshape, transforms>>

\* Lines 320-328 and writeMdFile (225-235): fs.writeFile is started.
writeMdFile ==
    /\ pc = "writeMdFile"
    /\ writes' = Append(writes,
                        [name |-> IF args.outputFile THEN "out.md" ELSE "Demo.md",
                         data |-> mdString.lines, status |-> "pending"])
    /\ pc' = "convertToPdf"
    /\ UNCHANGED <<args, file, logLevel, logged, exitCode, trelloJson, trelloObject,
                   Object, mdString, pdfJobs, lastOp, sinceReshape, transforms>>

\* convertToPdf (lines 281-304).
convertToPdf ==
    /\ pc = "convertToPdf"
    /\ pdfJobs' = IF args.pdf \/ args.pdfAutoName
                  THEN Append(pdfJobs,
                              [name |-> IF args.pdf THEN "named.pdf" ELSE "Demo.pdf",
                               data |-> mdString.lines, status |-> "pending"])
                  ELSE pdfJobs
    /\ pc' = "idle"
    /\ UNCHANGED <<args, file, logLevel, logged, exitCode, trelloJson, trelloObject,
                   Object, mdString, writes, lastOp, sinceReshape, transforms>>

\* The callback of fs.writeFile (lines 228-234), with or without an error.
writeFileCallback ==
    /\ pc = "idle"
    /\ \E i \in 1..Len(writes), err \in BOOLEAN :
          /\ writes[i].status = "pending"
          /\ writes' = [writes EXCEPT ![i].status = IF err THEN "failed" ELSE "written"]
          /\ logged' = IF err THEN Append(logged, Log("ERROR", "err")) ELSE logged
    /\ UNCHANGED <<pc, args, file, logLevel, exitCode, trelloJson, trelloObject, Object,
                   mdString, pdfJobs, lastOp, sinceReshape, transforms>>

\* The callback of markdownpdf (lines 300-302).
pdfCallback ==
    /\ pc = "idle"
    /\ \E i \in 1..Len(pdfJobs) :
          /\ pdfJobs[i].status = "pending"
          /\ pdfJobs' = [pdfJobs EXCEPT ![i].status = "created"]
    /\ UNCHANGED <<pc, args, file, logLevel, logged, exitCode, trelloJson, trelloObject,
                   Object, mdString, writes, lastOp, sinceReshape, transforms>>

Next ==
    \/ parseArguments
    \/ convertJson
    \/ writeMdFile
    \/ convertToPdf
    \/ writeFileCallback
    \/ pdfCallback

Spec == Init /\ [][Next]_vars

(***************************************************************************)
(* The functions called directly, any number of times in one process: the  *)
(* statements of convertJson (lines 198, 211, 213) and convertJson itself. *)
(* Object, being global, keeps what earlier calls stored in it.            *)
(***************************************************************************)
\* The exports loaded here: those of ListBoards with at most one list.
CallBoards == {b \in ListBoards : Len(b.lists) <= 1}

LastTwo(s) == IF Len(s) > 2 THEN Tail(s) ELSE s

InitCalls ==
    /\ pc = "calls"
    /\ args = PlainArgs
    /\ file = [status |-> "ok", json |-> DemoBoard]
    /\ logLevel = "INFO"
    /\ logged = <<>>
    /\ exitCode = -1
    /\ trelloJson = Null
    /\ trelloObject = "null"
    /\ Object = ObjectAtStart
    /\ mdString = Null
    /\ writes = <<>>
    /\ pdfJobs = <<>>
    /\ lastOp = "none"
    /\ sinceReshape = <<>>
    /\ transforms = <<>>

\* convertJson (lines 194-215) on a file that loads as the export b.  A second
\* call on the board already in memory is a re-run of the transform on it.
callConvertJson(b) ==
    /\ pc = "calls"
    /\ LET shaped == convertJsonToInternalObject(b, Object)
           rendered == convertTrelloObjectToMarkdown(b.lists, shaped.Object)
       IN  /\ trelloJson' = b
           /\ IF shaped.threw
              THEN /\ Object' = shaped.Object
                   /\ lastOp' = "threw"
                   /\ sinceReshape' = <<>>
                   /\ transforms' = <<>>
                   /\ UNCHANGED <<trelloObject, mdString>>
              ELSE /\ trelloObject' = "Object"
                   /\ Object' = rendered.Object
                   /\ mdString' = Text(rendered.mdString)
                   /\ lastOp' = "convertJson"
                   /\ sinceReshape' = <<rendered.mdString>>
                   /\ transforms' = IF lastOp = "convertJson" /\ trelloJson = b
                                    THEN LastTwo(Append(transforms, rendered.mdString))
                                    ELSE <<rendered.mdString>>
    /\ UNCHANGED <<pc, args, file, logLevel, logged, exitCode, writes, pdfJobs>>

\* Line 211: trelloObject = convertJsonToInternalObject(trelloJson).
callConvertJsonToInternalObject ==
    /\ pc = "calls"
    /\ trelloJson # Null
    /\ LET shaped == convertJsonToInternalObject(trelloJson, Object)
       IN  /\ Object' = shaped.Object
           /\ IF shaped.threw
              THEN /\ lastOp' = "threw"
                   /\ UNCHANGED trelloObject
              ELSE /\ lastOp' = "reshape"
                   /\ trelloObject' = "Object"
    /\ sinceReshape' = <<>>
    /\ transforms' = <<>>
    /\ UNCHANGED <<pc, args, file, logLevel, logged, exitCode, trelloJson, mdString,
                   writes, pdfJobs>>

\* Line 213: convertTrelloObjectToMarkdown(trelloJson.lists, trelloObject).
callConvertTrelloObjectToMarkdown ==
    /\ pc = "calls"
    /\ trelloJson # Null
    /\ trelloObject = "Object"
    /\ LET rendered == convertTrelloObjectToMarkdown(trelloJson.lists, Object)
       IN  /\ Object' = rendered.Object
           /\ mdString' = Text(rendered.mdString)
           /\ sinceReshape' = LastTwo(Append(sinceReshape, rendered.mdString))
    /\ lastOp' = "render"
    /\ transforms' = <<>>
    /\ UNCHANGED <<pc, args, file, logLevel, logged, exitCode, trelloJson, trelloObject,
                   writes, pdfJobs>>

NextCalls ==
    \/ \E b \in CallBoards : callConvertJson(b)
    \/ callConvertJsonToInternalObject
    \/ callConvertTrelloObjectToMarkdown

SpecCalls == InitCalls /\ [][NextCalls]_vars

(***************************************************************************)
(* Reading a rendered text and an export, for the properties below.  None  *)
(* of these uses the reshaper or the renderer.                             *)
(***************************************************************************)
Rendered == mdString # Null
Md == mdString.lines

KindAt(s, k) == {i \in 1..Len(s) : s[i].k = k}
HeadingAt(s) == KindAt(s, "card") \cup KindAt(s, "list")

\* The positions of the card headings of a text.
CardAt(md) == KindAt(md, "card")

\* The lines under the card heading at p: up to the next heading, less the one
\* line break that opens the next card heading or closes the list.
CardBody(md, p) ==
    LET later == {q \in HeadingAt(md) : q > p}
        stop == IF later = {} THEN Len(md) + 1
                ELSE CHOOSE q \in later : \A r \in later : q <= r
    IN  SubSeq(md, p + 1, stop - 2)

OfKind(s, k) == SelectSeq(s, LAMBDA l : l.k = k)
Texts(s) == [i \in 1..Len(s) |-> s[i].text]

\* The export's lists that are not closed, and the cards that belong to one.
OpenLists(json) == SelectSeq(json.lists, LAMBDA l : l.closed # TRUE)
CardsIn(json, list) ==
    SelectSeq(json.cards, LAMBDA c : c.idList = list.id /\ ~c.closed)
SurvivingCards(json) ==
    Flatten([i \in 1..Len(OpenLists(json)) |-> CardsIn(json, OpenLists(json)[i])])
CommentsOn(json, card) ==
    SelectSeq(json.actions,
              LAMBDA a : a.type = "commentCard" /\ a.data.card.id = card.id)
ChecklistsOn(json, card) == SelectSeq(json.checklists, LAMBDA c : c.idCard = card.id)
ItemsOn(json, card) ==
    Flatten([i \in 1..Len(ChecklistsOn(json, card)) |-> ChecklistsOn(json, card)[i].checkItems])

\* The export's card a card heading names (card names are distinct).
CardNamed(json, name) ==
    CHOOSE i \in 1..Len(json.cards) : json.cards[i].name = name
IsCardOf(json, name) == \E i \in 1..Len(json.cards) : json.cards[i].name = name

\* The rendered cards of the export in memory: heading position and card.
RenderedCards ==
    {<<p, trelloJson.cards[CardNamed(trelloJson, Md[p].text)]>> : p \in CardAt(Md)}

\* The number of blank lines right before position i of a body.
RECURSIVE BlanksBefore(_, _)
BlanksBefore(body, i) ==
    IF i > 1 /\ body[i - 1].k = "blank" THEN 1 + BlanksBefore(body, i - 1) ELSE 0

FirstOf(body, k) == CHOOSE i \in KindAt(body, k) : \A j \in KindAt(body, k) : i <= j

(***************************************************************************)
(* C1.  The rendered text has exactly one list heading per list that is    *)
(* not closed, in the order of the export's lists, and nothing (no         *)
(* heading, no card) for a closed list.                                    *)
(***************************************************************************)
C1_OpenListsOnly ==
    Rendered =>
      /\ Texts(OfKind(Md, "list")) = Texts([i \in 1..Len(OpenLists(trelloJson)) |->
                                              [text |-> OpenLists(trelloJson)[i].name]])
      /\ \A p \in CardAt(Md) :
            /\ IsCardOf(trelloJson, Md[p].text)
            /\ \E i \in 1..Len(OpenLists(trelloJson)) :
                  OpenLists(trelloJson)[i].id
                    = trelloJson.cards[CardNamed(trelloJson, Md[p].text)].idList

(***************************************************************************)
(* C2.  After the transform, every list that is not closed carries exactly *)
(* the export's open cards of that list, in order, and these are the card  *)
(* headings of the text; cards of no surviving list, and comments and      *)
(* checklists of no surviving card, add nothing and raise no error.        *)
(***************************************************************************)
C2_CardsAttached ==
    (pc \in {"crashed", "writeMdFile", "convertToPdf", "idle"}) =>
      /\ pc # "crashed"
      /\ \A i \in 1..Len(OpenLists(trelloJson)) :
            LET list == OpenLists(trelloJson)[i]
                want == CardsIn(trelloJson, list)
            IN  /\ Object[list.id].t = "object"
                /\ [j \in 1..Len(Object[list.id].v.CARDS) |-> Object[list.id].v.CARDS[j].id]
                     = [j \in 1..Len(want) |-> want[j].id]
      /\ Texts(OfKind(Md, "card"))
           = [j \in 1..Len(SurvivingCards(trelloJson)) |-> SurvivingCards(trelloJson)[j].name]
      /\ \A l \in {Md[j] : j \in KindAt(Md, "comment")} :
            \E j \in 1..Len(SurvivingCards(trelloJson)) :
               \E a \in 1..Len(CommentsOn(trelloJson, SurvivingCards(trelloJson)[j])) :
                  CommentsOn(trelloJson, SurvivingCards(trelloJson)[j])[a].data.text = l.text
      /\ \A l \in {Md[j] : j \in KindAt(Md, "checklist")} :
            \E j \in 1..Len(SurvivingCards(trelloJson)) :
               \E c \in 1..Len(ChecklistsOn(trelloJson, SurvivingCards(trelloJson)[j])) :
                  ChecklistsOn(trelloJson, SurvivingCards(trelloJson)[j])[c].name = l.text

C4_RerunSameText ==
    Len(transforms) = 2 => transforms[1] = transforms[2]

(***************************************************************************)
(* C5.  Two renders of the same mapping, with no reshape in between, give  *)
(* the same text.                                                          *)
(***************************************************************************)
C5_RenderIsPure ==
    Len(sinceReshape) = 2 => sinceReshape[1] = sinceReshape[2]

(***************************************************************************)
(* C6.  Under a rendered card with comments and checklists exactly one     *)
(* blank line stands between the last comment and the first checklist;     *)
(* with checklists and no comments, none stands before the first           *)
(* checklist beyond the description's own.                                 *)
(***************************************************************************)
C6_OneBlankLine ==
    Rendered =>
      \A rc \in RenderedCards :
         LET body == CardBody(Md, rc[1])
             described == OfKind(body, "desc") # <<>>
         IN  OfKind(body, "checklist") # <<>> =>
               IF OfKind(body, "comment") # <<>>
               THEN BlanksBefore(body, FirstOf(body, "checklist")) = 1
               ELSE FirstOf(body, "checklist") = (IF described THEN 3 ELSE 1)

(***************************************************************************)
(* C7.  Under a rendered card whose description is empty or absent no      *)
(* description line and no description blank line follows the heading;     *)
(* absent labels give a heading without labels.                            *)
(***************************************************************************)
C7_NoDescriptionBlock ==
    Rendered =>
      \A rc \in RenderedCards :
         LET body == CardBody(Md, rc[1])
             card == rc[2]
         IN  /\ card.desc \in {Undefined, JsString("")} =>
                  /\ OfKind(body, "desc") = <<>>
                  /\ IF CommentsOn(trelloJson, card) # <<>>
                     THEN body[1].k = "comment"
                     ELSE IF ChecklistsOn(trelloJson, card) # <<>>
                          THEN body[1].k = "checklist"
                          ELSE Texts(body) = <<"", "">>
             /\ card.labels.t = "undefined" => Md[rc[1]].labels = <<>>

(***************************************************************************)
(* C8.  Every check item of a rendered card is marked "[ ] " when its      *)
(* state is "incomplete" and "[X] " for every other state, absent or       *)
(* unrecognised ones included.                                             *)
(***************************************************************************)
C8_CheckBoxes ==
    Rendered =>
      \A rc \in RenderedCards :
         LET want == ItemsOn(trelloJson, rc[2])
             got == OfKind(CardBody(Md, rc[1]), "item")
         IN  [i \in 1..Len(got) |-> <<got[i].text, got[i].box>>]
               = [i \in 1..Len(want) |->
                    <<want[i].name,
                      IF want[i].state.t = "string" /\ want[i].state.v = "incomplete"
                      THEN "[ ] " ELSE "[X] ">>]

\* A rendered checklist with an absent state and an unrecognised one.
C8_Witness ==
    /\ Rendered
    /\ \E rc \in RenderedCards :
          /\ Len(OfKind(CardBody(Md, rc[1]), "item")) = 2
          /\ ItemsOn(trelloJson, rc[2])[1].state = Undefined
          /\ ItemsOn(trelloJson, rc[2])[2].state = JsString("bogus")

(***************************************************************************)
(* C9.  When the source path is missing, or the source file cannot be      *)
(* located or parsed, the process ends after logging the error: nothing is *)
(* loaded, reshaped, rendered, written or exported, and nothing runs       *)
(* afterwards.                                                             *)
(***************************************************************************)
NothingDone ==
    /\ trelloJson = Null
    /\ trelloObject = "null"
    /\ Object = ObjectAtStart
    /\ mdString = Null
    /\ writes = <<>>
    /\ pdfJobs = <<>>

HasLogged(level, msg) == \E i \in 1..Len(logged) : logged[i] = Log(level, msg)

C10_OnlyOpenListsPresent ==
    lastOp \in {"reshape", "convertJson"} =>
      \A id \in ListIds :
         Truthy(Object[id]) =>
            \E i \in 1..Len(OpenLists(trelloJson)) : OpenLists(trelloJson)[i].id = id

====
